---------------------------- MODULE Spec2Model ----------------------------
(***************************************************************************)
(* A model of the RCON client of squad-bot (class Rcon, sr-rcon): the      *)
(* packet codec, the frame reassembler (_decodeData), the response         *)
(* correlator (_socketOnData), the handshake (_write with AUTH) and the    *)
(* socket lifecycle (connect, close, error, reconnect timer).              *)
(*                                                                         *)
(* Buffers are sequences of bytes (0..255); JavaScript strings are         *)
(* sequences of code points.                                               *)
(***************************************************************************)
EXTENDS Integers, Sequences, FiniteSets, TLC

(***************************************************************************)
(* Protocol constants.                                                     *)
(***************************************************************************)
COMMAND == 2
AUTH == 3
RESPONSE_VALUE == 0
CHAT_VALUE == 1
RESPONSE_AUTH == 2
MID == 1
END == 2
DefaultMaximumPacketSize == 4096
AutoReconnectDelay == 5000
probeSize == 17
probePacketSize == 21

\* '\x00\x00\x00\x01\x00\x00\x00', the body of the broken packet
BrokenBody == <<0, 0, 0, 1, 0, 0, 0>>

(***************************************************************************)
(* Bounds of the model.                                                    *)
(***************************************************************************)
\* number of complete frames in a byte stream of FeedSpec
MaxStreamFrames == 2
\* number of connect() calls of the caller
MaxConnectCalls == 2
\* number of commands the caller has accepted by _write
MaxIssued == 2
\* number of frames the server sends
MaxSent == 4
\* the server sends a frame when at most this many bytes are in flight
MaxInFlight == 15
\* number of connections established
MaxConn == 2

(***************************************************************************)
(* Sequence helpers.                                                       *)
(***************************************************************************)
Min(a, b) == IF a < b THEN a ELSE b
Max(a, b) == IF a > b THEN a ELSE b

RECURSIVE Flatten(_)
Flatten(ss) == IF ss = <<>> THEN <<>> ELSE Head(ss) \o Flatten(Tail(ss))

Repeat(x, n) == [i \in 1..n |-> x]

(***************************************************************************)
(* Node Buffer primitives.                                                 *)
(***************************************************************************)
\* Buffer.prototype.slice(start, end): negative indexes count from the end,
\* both are clamped to the buffer
SliceIndex(i, len) == IF i < 0 THEN Max(len + i, 0) ELSE Min(i, len)

Slice(buf, start, end) ==
    LET s == SliceIndex(start, Len(buf))
        e == SliceIndex(end, Len(buf))
    IN  IF s < e THEN SubSeq(buf, s + 1, e) ELSE <<>>

\* buf.readInt32LE(offset): little-endian, two's complement; the caller
\* checks CanRead first (Node throws ERR_OUT_OF_RANGE otherwise)
CanRead(buf, offset) == offset + 4 <= Len(buf)

ReadInt32LE(buf, offset) ==
    LET b0 == buf[offset + 1]
        b1 == buf[offset + 2]
        b2 == buf[offset + 3]
        b3 == buf[offset + 4]
        hi == IF b3 >= 128 THEN b3 - 256 ELSE b3
    IN  b0 + 256 * b1 + 65536 * b2 + 16777216 * hi

\* buf.writeInt32BE, the byte order _encodePacket does not use
WriteInt32BE(n) ==
    << (n \div 16777216) % 256, (n \div 65536) % 256, (n \div 256) % 256,
       n % 256 >>

\* buf.writeInt32LE(value, offset), as the four bytes written
WriteInt32LE(n) ==
    << n % 256, (n \div 256) % 256, (n \div 65536) % 256,
       (n \div 16777216) % 256 >>

\* U+FFFD, what Node writes for an unpaired surrogate and reads for bytes
\* that are not UTF-8
ReplacementChar == 65533

\* a string is its UTF-16 code units; a character above U+FFFF is a high
\* surrogate followed by a low surrogate
IsHighSurrogate(c) == c >= 55296 /\ c < 56320
IsLowSurrogate(c) == c >= 56320 /\ c < 57344
CodePoint(hi, lo) == 65536 + (hi - 55296) * 1024 + (lo - 56320)

\* the UTF-8 bytes of one code point
Utf8Char(c) ==
    IF c < 128 THEN <<c>>
    ELSE IF c < 2048 THEN <<192 + (c \div 64), 128 + (c % 64)>>
    ELSE IF c < 65536
         THEN <<224 + (c \div 4096), 128 + ((c \div 64) % 64), 128 + (c % 64)>>
    ELSE <<240 + (c \div 262144), 128 + ((c \div 4096) % 64),
           128 + ((c \div 64) % 64), 128 + (c % 64)>>

\* UTF-8 encoding of a string (Buffer.byteLength(body), buf.write with
\* 'utf8'): a surrogate pair is one four-byte character, an unpaired
\* surrogate is written as U+FFFD
RECURSIVE Utf8Encode(_)
Utf8Encode(s) ==
    IF \A i \in DOMAIN s : s[i] < 128 THEN s
    ELSE IF IsHighSurrogate(s[1]) /\ Len(s) >= 2 /\ IsLowSurrogate(s[2])
         THEN Utf8Char(CodePoint(s[1], s[2])) \o Utf8Encode(Tail(Tail(s)))
    ELSE IF IsHighSurrogate(s[1]) \/ IsLowSurrogate(s[1])
         THEN Utf8Char(ReplacementChar) \o Utf8Encode(Tail(s))
    ELSE Utf8Char(s[1]) \o Utf8Encode(Tail(s))

\* UTF-8 decoding (buf.toString('utf8')).  SequenceLength is the length the
\* first byte announces (0: not a first byte), ContinuationOk tells whether
\* the i-th byte may follow (the second byte excludes overlong forms,
\* surrogates and code points above U+10FFFF), ValidPrefix is the number of
\* bytes of the sequence that are present and well formed.
SequenceLength(b1) ==
    IF b1 < 128 THEN 1
    ELSE IF b1 >= 194 /\ b1 < 224 THEN 2
    ELSE IF b1 >= 224 /\ b1 < 240 THEN 3
    ELSE IF b1 >= 240 /\ b1 < 245 THEN 4
    ELSE 0

ContinuationOk(b, i) ==
    /\ Len(b) >= i
    /\ b[i] >= (IF i = 2 /\ b[1] = 224 THEN 160
                ELSE IF i = 2 /\ b[1] = 240 THEN 144 ELSE 128)
    /\ b[i] <= (IF i = 2 /\ b[1] = 237 THEN 159
                ELSE IF i = 2 /\ b[1] = 244 THEN 143 ELSE 191)

ValidPrefix(b) ==
    LET n == SequenceLength(b[1])
    IN  IF n = 0 THEN 0
        ELSE 1 + Cardinality({ i \in 2..n :
                                  \A j \in 2..i : ContinuationOk(b, j) })

\* the code units of the well-formed sequence of n bytes at the head of b
Utf8Units(b, n) ==
    IF n = 1 THEN <<b[1]>>
    ELSE IF n = 2 THEN <<(b[1] - 192) * 64 + (b[2] - 128)>>
    ELSE IF n = 3
         THEN <<(b[1] - 224) * 4096 + (b[2] - 128) * 64 + (b[3] - 128)>>
    ELSE LET c == (b[1] - 240) * 262144 + (b[2] - 128) * 4096
                    + (b[3] - 128) * 64 + (b[4] - 128) - 65536
         IN  <<55296 + (c \div 1024), 56320 + (c % 1024)>>

\* a well-formed sequence decodes to its character; any other byte, or the
\* well-formed start of a sequence that is cut short, decodes to one U+FFFD
RECURSIVE Utf8Decode(_)
Utf8Decode(b) ==
    IF \A i \in DOMAIN b : b[i] < 128 THEN b
    ELSE LET n == SequenceLength(b[1])
             p == ValidPrefix(b)
         IN  IF n > 0 /\ p = n
             THEN Utf8Units(b, n) \o Utf8Decode(SubSeq(b, n + 1, Len(b)))
             ELSE <<ReplacementChar>>
                    \o Utf8Decode(SubSeq(b, Max(p, 1) + 1, Len(b)))

\* 'ascii' in Node: writing stores the low byte of every code unit, reading
\* clears the high bit of every byte
AsciiWrite(s) == [i \in DOMAIN s |-> s[i] % 256]
AsciiDecode(b) == [i \in DOMAIN b |-> b[i] % 128]

\* the encodings of the encoding option
Encodings == { "utf8", "ascii" }

\* buf.write(string, offset, length, encoding) into a zero-filled buffer
\* with room bytes after offset: the bytes from offset on.  length is
\* clamped to room, and only whole characters are written
RECURSIVE WholeChars(_, _)
WholeChars(s, room) ==
    IF s = <<>> THEN <<>>
    ELSE LET pair == /\ IsHighSurrogate(s[1]) /\ Len(s) >= 2
                     /\ IsLowSurrogate(s[2])
             k == IF pair THEN 2 ELSE 1
             bytes == Utf8Encode(SubSeq(s, 1, k))
         IN  IF Len(bytes) > room THEN <<>>
             ELSE bytes \o WholeChars(SubSeq(s, k + 1, Len(s)),
                                      room - Len(bytes))

BufWrite(string, room, length, encoding) ==
    LET n == Min(length, room)
        bytes == IF encoding = "ascii"
                 THEN SubSeq(AsciiWrite(string), 1, Min(Len(string), n))
                 ELSE IF Len(Utf8Encode(string)) <= n THEN Utf8Encode(string)
                 ELSE WholeChars(string, n)
    IN  bytes \o Repeat(0, room - Len(bytes))

\* buf.toString(encoding, start, end): start and end are clamped to the
\* buffer, an empty or reversed range gives ''
BufToStringAs(encoding, buf, start, end) ==
    LET s == Max(start, 0)
        e == Min(end, Len(buf))
    IN  IF e <= s THEN <<>>
        ELSE IF encoding = "ascii" THEN AsciiDecode(SubSeq(buf, s + 1, e))
        ELSE Utf8Decode(SubSeq(buf, s + 1, e))

\* the bot configures encoding: 'utf8', which is also the default
BufToString(buf, start, end) == BufToStringAs("utf8", buf, start, end)

(***************************************************************************)
(* Packet codec.                                                           *)
(***************************************************************************)
\* Rcon._encodePacket with this._encoding = encoding: a zero-filled buffer
\* of size bytes, the three header fields, the body written from offset 12
\* with length size - 2, and a 16-bit zero over the last two bytes
EncodePacketAs(encoding, type, id, body) ==
    LET size == Len(Utf8Encode(body)) + 14
        tail == BufWrite(body, size - 12, size - 2, encoding)
    IN  WriteInt32LE(size - 4) \o WriteInt32LE(id) \o WriteInt32LE(type)
          \o SubSeq(tail, 1, size - 14) \o <<0, 0>>

EncodePacket(type, id, body) == EncodePacketAs("utf8", type, id, body)

\* Rcon._decodePacket; the three header reads need 12 bytes
CanDecode(packet) == Len(packet) >= 12

DecodePacketAs(encoding, packet) ==
    [ size |-> ReadInt32LE(packet, 0),
      id   |-> ReadInt32LE(packet, 4),
      type |-> ReadInt32LE(packet, 8),
      body |-> BufToStringAs(encoding, packet, 12, Len(packet) - 2) ]

DecodePacket(packet) == DecodePacketAs("utf8", packet)

(***************************************************************************)
(* Frame reassembler: Rcon._decodeData.                                    *)
(***************************************************************************)
\* a probe that decodes the packet of the declared size, not the 21-byte
\* window
ProbeDeclaredPacket(buf, size) ==
    /\ size = 10
    /\ Len(buf) >= probeSize
    /\ DecodePacket(Slice(buf, 0, size + 4)).body = BrokenBody

\* the probe of the broken packet: size 10, enough data, and the body of
\* the 21-byte window is the broken body
IsBrokenPacket(buf, size) ==
    /\ size = 10
    /\ Len(buf) >= probeSize
    /\ DecodePacket(Slice(buf, 0, probePacketSize)).body = BrokenBody

\* a wait that compares with the declared size, not with size + 4
NeedMoreDataThanSize(buf, packetSize) == Len(buf) < packetSize - 4

\* "Waiting for more data..."
NeedMoreData(buf, packetSize) == Len(buf) < packetSize

\* the while loop of _decodeData on the buffer buf, packets being the
\* packets pushed so far and log the pieces cut off the front of the buffer
\* so far, in order: the packets pushed and the broken packets dropped
\* hung: an iteration pushed a packet and left the buffer as it was, so
\* the loop repeats that iteration for ever and _decodeData never returns
RECURSIVE DecodeLoop(_, _, _)
DecodeLoop(buf, packets, log) ==
    IF Len(buf) < 4
    THEN [data |-> buf, packets |-> packets, log |-> log, hung |-> FALSE]
    ELSE LET size == ReadInt32LE(buf, 0)
             packetSize == size + 4
             rest == Slice(buf, packetSize, Len(buf))
         IN  IF IsBrokenPacket(buf, size)
             THEN DecodeLoop(Slice(buf, probePacketSize, Len(buf)), packets,
                             Append(log, [pushed |-> FALSE,
                                          bytes |-> Slice(buf, 0, probePacketSize)]))
             ELSE IF NeedMoreData(buf, packetSize)
             THEN [data |-> buf, packets |-> packets, log |-> log,
                   hung |-> FALSE]
             ELSE IF rest = buf
             THEN [data |-> buf, packets |-> packets, log |-> log,
                   hung |-> TRUE]
             ELSE DecodeLoop(rest, Append(packets, Slice(buf, 0, packetSize)),
                             Append(log, [pushed |-> TRUE,
                                          bytes |-> Slice(buf, 0, packetSize)]))

\* _decodeData(data) with this._incomingData = incoming
DecodeData(incoming, data) == DecodeLoop(incoming \o data, <<>>, <<>>)

(***************************************************************************)
(* State.                                                                  *)
(***************************************************************************)
VARIABLES
    connected,              \* this._connected
    autoReconnect,          \* this._autoReconnect
    incomingData,           \* this._incomingData
    incomingResponse,       \* this._incomingResponse
    responseCallbackQueue,  \* this._responseCallbackQueue
    maximumPacketSize,      \* this._maximumPacketSize
    sock,                   \* this._client: idle, connecting, open, errored, closed
    connectListeners,       \* once('connect', onConnect) listeners of connect()
    connectErrorListeners,  \* once('error', onError) listeners of connect()
    writeErrorListeners,    \* once('error', onError) listeners of _write
    timers,                 \* pending setTimeout(this.connect, delay): the time
                            \* in ms each has left, oldest first
    wire,                   \* bytes the server has sent and the socket has not delivered
    op,                     \* the operation or event handled last
    emitted,                \* notifications emitted by the last handler
    written,                \* packets written to the socket by the last handler
    steps,                  \* the queue pushes (push), listener registrations
                            \* (once) and socket writes (write) of _write in the
                            \* last handler, in program order
    handed,                 \* completions invoked by the last handler
    frames,                 \* frames dispatched by the last handler
    threw,                  \* the last handler ended with an exception
    issued,                 \* number of commands accepted so far
    delivered,              \* issue numbers of the 'response' notifications so far
    sinceEnd,               \* bodies of the Mid response frames since the last End
    hs,                     \* handshake record: the connection that emitted 'authed'
                            \* last (authed), the End response frames (ends) and the
                            \* commands issued (base) since, the connection whose
                            \* Auth packet was answered with id -1 (refused), the
                            \* End response frames dispatched on this connection
                            \* (seen) and whether the queue was empty when it was
                            \* established (fresh)
    conn,                   \* number of connections established so far
    hung,                   \* _decodeData never returned: the event loop is stuck
    nConnect,               \* number of connect() calls of the caller so far
    nSent,                  \* number of frames the server has sent so far
    feed,                   \* FeedSpec: the stream (its items and unfinished tail),
                            \* the packets _decodeData has returned (all) and
                            \* whether it was called once or many times
    codec                   \* CodecSpec: the arguments of _encodePacket, the
                            \* packet it returned and what _decodePacket made
                            \* of it

vars == << connected, autoReconnect, incomingData, incomingResponse,
           responseCallbackQueue, maximumPacketSize, sock, connectListeners,
           connectErrorListeners, writeErrorListeners, timers, wire, op,
           emitted, written, steps, handed, frames, threw, issued, delivered,
           sinceEnd, hs, conn, hung, nConnect, nSent, feed, codec >>

(***************************************************************************)
(* Notifications and completions.                                          *)
(***************************************************************************)
Event(ev, msg, body) == [ev |-> ev, msg |-> msg, body |-> body]
ErrorEvent(msg) == Event("error", msg, <<>>)

\* a completion of the queue: () => {} (noop), the auth completion, or a
\* command's completion; tok names the error listener its _write call
\* registered, req is the command's issue number and epoch the connection
\* it was queued on
Callback(kind, tok, req, epoch) ==
    [kind |-> kind, tok |-> tok, req |-> req, epoch |-> epoch]

\* the handler state the methods below read and change
Client ==
    [ connected |-> connected, writable |-> sock = "open",
      max |-> maximumPacketSize, q |-> responseCallbackQueue,
      acc |-> incomingResponse, auto |-> autoReconnect,
      wl |-> writeErrorListeners, ev |-> <<>>, wr |-> <<>>, steps |-> <<>>,
      handed |-> <<>>,
      frames |-> <<>>, threw |-> FALSE, issued |-> issued,
      delivered |-> delivered, sinceEnd |-> sinceEnd, hs |-> hs,
      epoch |-> conn ]

Emit(st, e) == [st EXCEPT !.ev = Append(@, e)]

(***************************************************************************)
(* Rcon._write.                                                            *)
(***************************************************************************)
\* a limit that rejects a packet of exactly the maximum size
TooLongOrEqual(max, length) == max <= length

\* this._maximumPacketSize < encodedPacket.length
TooLong(max, length) == max < length

\* a listener not registered and not held by a queued completion
NewToken(st) ==
    LET used == st.wl \cup {st.q[i].tok : i \in DOMAIN st.q}
    IN  CHOOSE t \in 1..(Cardinality(used) + 1) : t \notin used

\* a _write that queues no completion for the first reply to the Auth
\* packet
PushedWithoutNoop(st, type) ==
    IF type = AUTH
    THEN << Callback("auth", NewToken(st), 0, st.epoch) >>
    ELSE << Callback("cmd", NewToken(st), st.issued + 1, st.epoch) >>

\* the completions _write pushes
Pushed(st, type) ==
    IF type = AUTH
    THEN << Callback("noop", 0, 0, st.epoch),
            Callback("auth", NewToken(st), 0, st.epoch) >>
    ELSE << Callback("cmd", NewToken(st), st.issued + 1, st.epoch) >>

\* a _write that sends the End marker before the command packet
SentEndFirst(type, body) ==
    IF type # AUTH
    THEN << EncodePacket(type, END, <<>>), EncodePacket(type, MID, body) >>
    ELSE << EncodePacket(type, END, body) >>

\* the packets _write sends
Sent(type, body) ==
    IF type # AUTH
    THEN << EncodePacket(type, MID, body), EncodePacket(type, END, <<>>) >>
    ELSE << EncodePacket(type, END, body) >>

\* the order in which _write pushes, registers and writes
Steps(type) ==
    IF type = AUTH THEN << "push", "push", "once", "write" >>
    ELSE << "push", "once", "write", "write" >>

\* a _write that does not look at this._connected
WriteWithoutConnectedCheck(st, type, body) ==
    IF ~st.writable THEN Emit(st, ErrorEvent("Unable to write to socket."))
    ELSE LET encodedPacket == EncodePacket(type, IF type # AUTH THEN MID ELSE END, body)
         IN  IF TooLong(st.max, Len(encodedPacket))
             THEN Emit(st, ErrorEvent("Packet too long."))
             ELSE [st EXCEPT !.q = @ \o Pushed(st, type),
                             !.wl = @ \cup {NewToken(st)},
                             !.wr = @ \o Sent(type, body),
                             !.steps = @ \o Steps(type),
                             !.issued = IF type # AUTH THEN @ + 1 ELSE @]

Write(st, type, body) ==
    IF ~st.connected THEN Emit(st, ErrorEvent("Not connected."))
    ELSE IF ~st.writable THEN Emit(st, ErrorEvent("Unable to write to socket."))
    ELSE LET encodedPacket == EncodePacket(type, IF type # AUTH THEN MID ELSE END, body)
         IN  IF TooLong(st.max, Len(encodedPacket))
             THEN Emit(st, ErrorEvent("Packet too long."))
             ELSE [st EXCEPT !.q = @ \o Pushed(st, type),
                             !.wl = @ \cup {NewToken(st)},
                             !.wr = @ \o Sent(type, body),
                             !.steps = @ \o Steps(type),
                             !.issued = IF type # AUTH THEN @ + 1 ELSE @]

(***************************************************************************)
(* Rcon._socketOnData.                                                     *)
(***************************************************************************)
Comma == <<44>>

RECURSIVE JoinWith(_, _)
JoinWith(strs, sep) ==
    IF strs = <<>> THEN <<>>
    ELSE IF Len(strs) = 1 THEN strs[1]
    ELSE strs[1] \o sep \o JoinWith(Tail(strs), sep)

\* this._incomingResponse.map((packet) => packet.body).join()
JoinBodies(acc) == JoinWith([i \in DOMAIN acc |-> acc[i].body], Comma)

\* pop() in the place of shift(): the newest completion is taken
Pop(q) == [cb |-> q[Len(q)], rest |-> SubSeq(q, 1, Len(q) - 1)]

\* a shift() that returns the head and leaves it in the queue
ShiftKeepingHead(q) == [cb |-> Head(q), rest |-> q]

\* this._responseCallbackQueue.shift(): the completion taken and the rest
Shift(q) == [cb |-> Head(q), rest |-> Tail(q)]

\* decodedPacket.id inside the auth completion: the completion is called
\* with the joined string, and a string has no property id (undefined,
\* here the empty sequence; a number n would be <<n>>)
ArgumentId(arg) == <<>>

\* completions that leave the error listener of their _write registered
InvokeKeepingListener(st, cb, arg) ==
    LET st1 == [st EXCEPT !.handed = Append(@,
                   [kind |-> cb.kind, req |-> cb.req, epoch |-> cb.epoch,
                    arg |-> arg, frags |-> st.sinceEnd,
                    ends |-> st.hs.ends, base |-> st.hs.base,
                    ready |-> st.hs.authed = st.epoch])]
    IN  IF cb.kind = "noop" THEN st1
        ELSE IF cb.kind = "auth"
        THEN IF ArgumentId(arg) = <<-1>>
             THEN Emit(st1, ErrorEvent("Authentication failed."))
             ELSE Emit([st1 EXCEPT !.auto = TRUE,
                                   !.hs = [@ EXCEPT !.authed = st.epoch,
                                                    !.ends = 0,
                                                    !.base = st.issued]],
                       Event("authed", "", <<>>))
        ELSE Emit([st1 EXCEPT !.delivered = Append(@, cb.req)],
                  Event("response", "", arg))

\* the completion cb called with the string arg
Invoke(st, cb, arg) ==
    LET st1 == [st EXCEPT !.handed = Append(@,
                   [kind |-> cb.kind, req |-> cb.req, epoch |-> cb.epoch,
                    arg |-> arg, frags |-> st.sinceEnd,
                    ends |-> st.hs.ends, base |-> st.hs.base,
                    ready |-> st.hs.authed = st.epoch])]
    IN  IF cb.kind = "noop" THEN st1
        ELSE IF cb.kind = "auth"
        THEN LET st2 == [st1 EXCEPT !.wl = @ \ {cb.tok}]
             IN  IF ArgumentId(arg) = <<-1>>
                 THEN Emit(st2, ErrorEvent("Authentication failed."))
                 ELSE Emit([st2 EXCEPT !.auto = TRUE,
                                       !.hs = [@ EXCEPT !.authed = st.epoch,
                                                        !.ends = 0,
                                                        !.base = st.issued]],
                           Event("authed", "", <<>>))
        ELSE Emit([st1 EXCEPT !.wl = @ \ {cb.tok},
                              !.delivered = Append(@, cb.req)],
                  Event("response", "", arg))

\* whether the queue q holds an auth completion
AuthPending(q) == \E i \in DOMAIN q : q[i].kind = "auth"

\* the record of the decoded frame d in frames and hs
Observe(st, d) ==
    LET response == d.type \in {RESPONSE_VALUE, RESPONSE_AUTH}
    IN  [st EXCEPT
           !.frames = Append(@, [type |-> d.type, id |-> d.id,
                                 body |-> d.body,
                                 queued |-> Len(st.q),
                                 acc |-> Len(st.acc),
                                 authPending |-> AuthPending(st.q)]),
           !.hs = [@ EXCEPT
                     !.ends = IF response /\ d.id = END
                                 /\ st.hs.authed = st.epoch
                              THEN @ + 1 ELSE @,
                     !.refused = IF response /\ d.id = -1 /\ AuthPending(st.q)
                                 THEN st.epoch ELSE @,
                     !.seen = IF response /\ d.id = END THEN @ + 1 ELSE @]]

\* a chat case that also keeps the frame as a fragment of the response
OnChatAccumulated(st, d) ==
    Emit([st EXCEPT !.acc = Append(@, d)], Event("chat", "", d.body))

\* case PacketResponseType.CHAT_VALUE
OnChat(st, d) == Emit(st, Event("chat", "", d.body))

\* a loop body whose inner default case completes the oldest request, as
\* the End case does
HandlePacketCompletingOnAnyId(st0, packet) ==
    IF ~CanDecode(packet) THEN [st0 EXCEPT !.threw = TRUE]
    ELSE
    LET d == DecodePacket(packet)
        st == Observe(st0, d)
    IN  IF d.type \in {RESPONSE_VALUE, RESPONSE_AUTH}
        THEN IF d.id = MID
             THEN [st EXCEPT !.acc = Append(@, d),
                             !.sinceEnd = Append(@, d.body)]
             ELSE IF st.q = <<>>
                  THEN [st EXCEPT !.threw = TRUE, !.sinceEnd = <<>>]
                  ELSE LET sh == Shift(st.q)
                           st1 == Invoke([st EXCEPT !.q = sh.rest], sh.cb,
                                         JoinBodies(st.acc))
                       IN  [st1 EXCEPT !.acc = <<>>, !.sinceEnd = <<>>]
        ELSE IF d.type = CHAT_VALUE
        THEN OnChat(st, d)
        ELSE st

\* one iteration of the for loop over the packets
HandlePacket(st0, packet) ==
    IF ~CanDecode(packet) THEN [st0 EXCEPT !.threw = TRUE]
    ELSE
    LET d == DecodePacket(packet)
        st == Observe(st0, d)
    IN  IF d.type \in {RESPONSE_VALUE, RESPONSE_AUTH}
        THEN IF d.id = MID
             THEN [st EXCEPT !.acc = Append(@, d),
                             !.sinceEnd = Append(@, d.body)]
             ELSE IF d.id = END
             THEN IF st.q = <<>>
                  THEN \* undefined is not a function
                       [st EXCEPT !.threw = TRUE, !.sinceEnd = <<>>]
                  ELSE LET sh == Shift(st.q)
                           st1 == Invoke([st EXCEPT !.q = sh.rest], sh.cb,
                                         JoinBodies(st.acc))
                       IN  [st1 EXCEPT !.acc = <<>>, !.sinceEnd = <<>>]
             ELSE st
        ELSE IF d.type = CHAT_VALUE
        THEN OnChat(st, d)
        ELSE st

RECURSIVE Dispatch(_, _)
Dispatch(st, packets) ==
    IF packets = <<>> \/ st.threw THEN st
    ELSE Dispatch(HandlePacket(st, Head(packets)), Tail(packets))

(***************************************************************************)
(* Configuration and inputs.                                               *)
(***************************************************************************)
\* options.maximumPacketSize as given to the constructor (0: not given)
MaximumPacketSizeOptions == {15}

\* the configured password, "p"
Password == <<112>>

\* the commands the caller executes: "a" and "\u00e9" (one code point,
\* two bytes)
Commands == { <<97>>, <<233>> }

\* the broken packet as the server sends it: a header declaring size 10,
\* the 7-byte body and the terminator, 21 bytes
BrokenPacket(type, id) ==
    WriteInt32LE(10) \o WriteInt32LE(id) \o WriteInt32LE(type)
      \o BrokenBody \o <<0, 0>>

\* the frames the server may send in Spec after n frames: a response
\* fragment (the n-th has the body "a", "b", ...), the end of a response,
\* a refused authentication, a chat message
ServerFrames(n) ==
    { EncodePacket(RESPONSE_VALUE, MID, <<97 + n>>),
      EncodePacket(RESPONSE_VALUE, END, <<>>),
      EncodePacket(RESPONSE_AUTH, -1, <<>>),
      EncodePacket(CHAT_VALUE, 0, <<120>>) }

\* where the transport may cut the bytes in flight into chunks: after
\* 13 bytes (inside the first frame), or not at all
ChunkSizes(w) == { Len(w) } \cup { k \in 1..Len(w) : k \in {13} }

(***************************************************************************)
(* Initial state: the constructor.                                         *)
(***************************************************************************)
NoOp == [name |-> "new", body |-> <<>>]

\* the constructor, given one of the values sizes for
\* options.maximumPacketSize
InitClientWith(sizes) ==
    /\ connected = FALSE
    /\ autoReconnect = FALSE
    /\ incomingData = <<>>
    /\ incomingResponse = <<>>
    /\ responseCallbackQueue = <<>>
    /\ \E o \in sizes :
          maximumPacketSize = IF o = 0 THEN DefaultMaximumPacketSize ELSE o
    /\ sock = "idle"
    /\ connectListeners = 0
    /\ connectErrorListeners = 0
    /\ writeErrorListeners = {}
    /\ timers = <<>>
    /\ op = NoOp
    /\ emitted = <<>>
    /\ written = <<>>
    /\ steps = <<>>
    /\ handed = <<>>
    /\ frames = <<>>
    /\ threw = FALSE
    /\ issued = 0
    /\ delivered = <<>>
    /\ sinceEnd = <<>>
    /\ hs = [authed |-> 0, ends |-> 0, base |-> 0, refused |-> 0,
             seen |-> 0, fresh |-> TRUE]
    /\ conn = 0
    /\ hung = FALSE
    /\ nConnect = 0
    /\ nSent = 0

InitClient == InitClientWith(MaximumPacketSizeOptions)

NoFeed ==
    [stream |-> <<>>, items |-> <<>>, tail |-> <<>>, all |-> <<>>,
     calls |-> "none"]

\* no packet is being encoded
NoCodec ==
    [phase |-> "none", encoding |-> "utf8", type |-> 0, id |-> 0,
     body |-> <<>>, packet |-> <<>>, decoded |-> <<>>]

Init ==
    /\ InitClient
    /\ wire = <<>>
    /\ feed = NoFeed
    /\ codec = NoCodec

\* what a handler leaves of the client state st
Commit(st) ==
    /\ connected' = st.connected
    /\ responseCallbackQueue' = st.q
    /\ incomingResponse' = st.acc
    /\ autoReconnect' = st.auto
    /\ writeErrorListeners' = st.wl
    /\ emitted' = st.ev
    /\ written' = st.wr
    /\ steps' = st.steps
    /\ handed' = st.handed
    /\ frames' = st.frames
    /\ hs' = st.hs
    /\ threw' = st.threw
    /\ issued' = st.issued
    /\ delivered' = st.delivered
    /\ sinceEnd' = st.sinceEnd

(***************************************************************************)
(* Rcon.connect, called by the caller or by the reconnect timer.           *)
(***************************************************************************)
\* once('connect', onConnect), once('error', onError), _client.connect():
\* a socket that is idle or closed starts connecting
ConnectCall ==
    /\ connectListeners' = connectListeners + 1
    /\ connectErrorListeners' = connectErrorListeners + 1
    /\ sock' = IF sock \in {"idle", "closed"} THEN "connecting" ELSE sock
    /\ op' = [name |-> "connect", body |-> <<>>]
    /\ Commit(Client)
    /\ UNCHANGED << incomingData, maximumPacketSize, wire, conn, hung,
                    nSent, feed, codec >>

Connect ==
    /\ ~hung
    /\ nConnect < MaxConnectCalls
    /\ nConnect' = nConnect + 1
    /\ timers' = timers
    /\ ConnectCall

\* the oldest timer has run out: the event loop calls this.connect
ReconnectTimer ==
    /\ ~hung
    /\ timers # <<>>
    /\ Head(timers) = 0
    /\ timers' = Tail(timers)
    /\ nConnect' = nConnect
    /\ ConnectCall

\* time passes: the delay of the pending timers elapses
Tick ==
    /\ ~hung
    /\ \E i \in DOMAIN timers : timers[i] > 0
    /\ timers' = [i \in DOMAIN timers |-> Max(timers[i] - AutoReconnectDelay, 0)]
    /\ UNCHANGED << connected, autoReconnect, incomingData, incomingResponse,
                    responseCallbackQueue, maximumPacketSize, sock,
                    connectListeners, connectErrorListeners,
                    writeErrorListeners, wire, op, emitted, written, steps,
                    handed, frames, threw, issued, delivered, sinceEnd, hs,
                    conn, hung, nConnect, nSent, feed, codec >>

\* the onConnect listeners of n connect() calls, run by one 'connect' event
RECURSIVE OnConnect(_, _)
OnConnect(st, n) ==
    IF n = 0 THEN st
    ELSE OnConnect(
           Write(Emit([st EXCEPT !.connected = TRUE], Event("connect", "", <<>>)),
                 AUTH, Password),
           n - 1)

\* the socket's 'connect' event
SocketConnect ==
    /\ ~hung
    /\ sock = "connecting"
    /\ conn < MaxConn
    /\ sock' = "open"
    /\ conn' = conn + 1
    /\ Commit(OnConnect([Client EXCEPT
                           !.writable = TRUE, !.epoch = conn + 1,
                           !.hs = [@ EXCEPT
                                     !.seen = 0,
                                     !.fresh = (responseCallbackQueue = <<>>)]],
                        connectListeners))
    /\ connectListeners' = 0
    /\ connectErrorListeners' = 0
    /\ wire' = <<>>
    /\ op' = [name |-> "onConnect", body |-> <<>>]
    /\ UNCHANGED << incomingData, maximumPacketSize, timers, hung, nConnect,
                    nSent, feed, codec >>

(***************************************************************************)
(* The socket's 'error' and 'close' events.                                *)
(***************************************************************************)
SocketErrorText == "socket error"

\* 'error': _socketOnError, then the once listeners: every onError of
\* connect() removes its onConnect and emits, every onError of _write
\* empties the queue and emits
SocketError ==
    /\ ~hung
    /\ sock \in {"connecting", "open"}
    /\ sock' = "errored"
    /\ LET n == 1 + connectErrorListeners + Cardinality(writeErrorListeners)
           st == [Client EXCEPT
                    !.q = IF writeErrorListeners # {} THEN <<>> ELSE @,
                    !.wl = {},
                    !.ev = [i \in 1..n |-> ErrorEvent(SocketErrorText)]]
       IN  Commit(st)
    /\ connectListeners' = connectListeners - connectErrorListeners
    /\ connectErrorListeners' = 0
    /\ op' = [name |-> "onError", body |-> <<>>]
    /\ UNCHANGED << incomingData, maximumPacketSize, timers, wire, conn,
                    hung, nConnect, nSent, feed, codec >>

\* a close that calls this.connect through a timer with no delay
ScheduledWithoutDelay(ts, auto) == IF auto THEN Append(ts, 0) ELSE ts

\* a close that never schedules the reconnect
ScheduledNever(ts, auto) == ts

\* a close that schedules the reconnect whatever this._autoReconnect is
ScheduledAlways(ts, auto) == Append(ts, AutoReconnectDelay)

\* if (this._autoReconnect) setTimeout(this.connect, this._autoReconnectDelay)
Scheduled(ts, auto) == IF auto THEN Append(ts, AutoReconnectDelay) ELSE ts

\* a close that also clears this._autoReconnect
ClosedClearingAutoReconnect(st) ==
    [st EXCEPT !.connected = FALSE, !.auto = FALSE]

\* this._connected = false
Closed(st) == [st EXCEPT !.connected = FALSE]

\* 'close': _socketOnClose, after an error or when the peer ends the
\* connection; the bytes in flight are lost
SocketClose ==
    /\ ~hung
    /\ sock \in {"errored", "open"}
    /\ sock' = "closed"
    /\ Commit(Closed(Client))
    /\ timers' = Scheduled(timers, autoReconnect)
    /\ wire' = <<>>
    /\ op' = [name |-> "onClose", body |-> <<>>]
    /\ UNCHANGED << incomingData, maximumPacketSize, connectListeners,
                    connectErrorListeners, conn, hung, nConnect,
                    nSent, feed, codec >>

(***************************************************************************)
(* Rcon.execute.                                                           *)
(***************************************************************************)
Execute ==
    /\ ~hung
    /\ issued < MaxIssued
    /\ \E command \in Commands :
          /\ Commit(Write(Client, COMMAND, command))
          /\ op' = [name |-> "execute", body |-> command]
    /\ UNCHANGED << incomingData, maximumPacketSize, sock, connectListeners,
                    connectErrorListeners, timers, wire, conn, hung, nConnect,
                    nSent, feed, codec >>

(***************************************************************************)
(* The server and the transport.                                           *)
(***************************************************************************)
\* the server sends one more frame
ServerSend ==
    /\ ~hung
    /\ sock = "open"
    /\ nSent < MaxSent
    /\ Len(wire) <= MaxInFlight
    /\ nSent' = nSent + 1
    /\ \E f \in ServerFrames(nSent) : wire' = wire \o f
    /\ UNCHANGED << connected, autoReconnect, incomingData, incomingResponse,
                    responseCallbackQueue, maximumPacketSize, sock,
                    connectListeners, connectErrorListeners,
                    writeErrorListeners, timers, op, emitted, written, steps,
                    handed, frames, threw, issued, delivered, sinceEnd, hs,
                    conn, hung, nConnect, feed, codec >>

\* the socket's 'data' event with the next k bytes: _socketOnData
SocketOnData ==
    /\ ~hung
    /\ sock = "open"
    /\ wire # <<>>
    /\ \E k \in ChunkSizes(wire) :
          LET data == SubSeq(wire, 1, k)
              dec == DecodeData(incomingData, data)
          IN  /\ incomingData' = dec.data
              /\ hung' = dec.hung
              /\ Commit(IF dec.hung THEN Client ELSE Dispatch(Client, dec.packets))
              /\ wire' = SubSeq(wire, k + 1, Len(wire))
              /\ op' = [name |-> "onData", body |-> <<>>]
    /\ UNCHANGED << maximumPacketSize, sock, connectListeners,
                    connectErrorListeners, timers, conn, nConnect,
                    nSent, feed, codec >>

Next ==
    \/ Connect
    \/ ReconnectTimer
    \/ Tick
    \/ SocketConnect
    \/ SocketError
    \/ SocketClose
    \/ Execute
    \/ ServerSend
    \/ SocketOnData

Spec == Init /\ [][Next]_vars

\* the event loop runs the timers: time passes, and a timer whose delay
\* has elapsed fires
LiveSpec == Spec /\ WF_vars(Tick) /\ WF_vars(ReconnectTimer)

(***************************************************************************)
(* FeedSpec: _decodeData alone, fed a byte stream of the server in chunks  *)
(* of any sizes.                                                           *)
(***************************************************************************)
\* frames as _encodePacket lays them out
EncodedFrames ==
    { EncodePacket(RESPONSE_VALUE, END, <<>>),
      EncodePacket(RESPONSE_VALUE, MID, <<97>>),
      EncodePacket(RESPONSE_AUTH, -1, <<>>),
      EncodePacket(RESPONSE_VALUE, MID, BrokenBody) }

\* what the server sends as one unit: a frame or the broken packet
StreamItems == EncodedFrames \cup { BrokenPacket(RESPONSE_VALUE, END) }

\* the first bytes of a chat frame with a body of 246 bytes (declared size
\* 256) and id 0, the rest of which has not been sent yet
LongFrameHead ==
    SubSeq(EncodePacket(CHAT_VALUE, 0, Repeat(120, 246)), 1, 8)

RECURSIVE ItemSeqs(_)
ItemSeqs(n) ==
    IF n = 0 THEN { <<>> }
    ELSE LET shorter == ItemSeqs(n - 1)
         IN  shorter \cup { Append(s, f) : s \in shorter, f \in StreamItems }

InitFeed ==
    /\ InitClient
    /\ \E items \in ItemSeqs(MaxStreamFrames), tail \in { <<>>, LongFrameHead } :
          /\ items # <<>>
          /\ wire = Flatten(items) \o tail
          /\ feed = [stream |-> wire, items |-> items, tail |-> tail,
                     all |-> <<>>, calls |-> "none"]
    /\ codec = NoCodec

\* one call of _decodeData with the next k bytes of the stream
Feed ==
    /\ ~hung
    /\ wire # <<>>
    /\ \E k \in 1..Len(wire) :
          LET data == SubSeq(wire, 1, k)
              dec == DecodeData(incomingData, data)
          IN  /\ incomingData' = dec.data
              /\ hung' = dec.hung
              /\ wire' = SubSeq(wire, k + 1, Len(wire))
              /\ feed' = [feed EXCEPT
                            !.all = @ \o dec.packets,
                            !.calls = IF @ = "none" THEN "one" ELSE "many"]
              /\ op' = [name |-> "feed", body |-> <<>>]
    /\ UNCHANGED << connected, autoReconnect, incomingResponse,
                    responseCallbackQueue, maximumPacketSize, sock,
                    connectListeners, connectErrorListeners,
                    writeErrorListeners, timers, emitted, written, steps,
                    handed, frames, threw, issued, delivered, sinceEnd, hs,
                    conn, nConnect, nSent, codec >>

NextFeed == Feed

FeedSpec == InitFeed /\ [][NextFeed]_vars

(***************************************************************************)
(* CodecSpec: _encodePacket and _decodePacket alone, on sampled arguments. *)
(***************************************************************************)
\* the longest sampled body, in UTF-16 code units
MaxBodyLen == 2

\* NUL, "a", U+00E9 (two bytes in UTF-8), U+20AC (three bytes), the high
\* and the low surrogate of U+1F600 (four bytes as a pair), U+FFFD
CodeUnits == { 0, 97, 233, 8364, 55357, 56832, 65533 }

RECURSIVE Bodies(_)
Bodies(n) ==
    IF n = 0 THEN { <<>> }
    ELSE LET shorter == Bodies(n - 1)
         IN  shorter \cup { Append(s, c) : s \in shorter, c \in CodeUnits }

\* the body that fills a packet of the default maximum size exactly
LongBody == Repeat(120, DefaultMaximumPacketSize - 14)

\* kinds and ids: the ends of the int32 range and values in between
Int32Samples == { -2147483647 - 1, -1, 0, 1, 2, 3, 256, 2147483647 }

\* options.maximumPacketSize: absent (the default applies), or 18
CodecMaximumPacketSizeOptions == { 0, 18 }

\* Buffer.byteLength(body)
ByteLength(body) == Len(Utf8Encode(body))

InitCodec ==
    /\ InitClientWith(CodecMaximumPacketSizeOptions)
    /\ wire = <<>>
    /\ feed = NoFeed
    /\ \E encoding \in Encodings, type \in Int32Samples, id \in Int32Samples,
          body \in Bodies(MaxBodyLen) \cup { LongBody } :
          /\ ~TooLong(maximumPacketSize, ByteLength(body) + 14)
          /\ codec = [phase |-> "args", encoding |-> encoding, type |-> type,
                      id |-> id, body |-> body, packet |-> <<>>,
                      decoded |-> <<>>]

UnchangedClient ==
    UNCHANGED << connected, autoReconnect, incomingData, incomingResponse,
                 responseCallbackQueue, maximumPacketSize, sock,
                 connectListeners, connectErrorListeners, writeErrorListeners,
                 timers, wire, emitted, written, steps, handed, frames, threw,
                 issued, delivered, sinceEnd, hs, conn, hung, nConnect, nSent,
                 feed >>

\* one call of _encodePacket
Encode ==
    /\ codec.phase = "args"
    /\ codec' = [codec EXCEPT
                    !.phase = "encoded",
                    !.packet = EncodePacketAs(codec.encoding, codec.type,
                                              codec.id, codec.body)]
    /\ op' = [name |-> "encode", body |-> <<>>]
    /\ UnchangedClient

\* one call of _decodePacket on the packet _encodePacket returned
Decode ==
    /\ codec.phase = "encoded"
    /\ CanDecode(codec.packet)
    /\ codec' = [codec EXCEPT
                    !.phase = "decoded",
                    !.decoded = DecodePacketAs(codec.encoding, codec.packet)]
    /\ op' = [name |-> "decode", body |-> <<>>]
    /\ UnchangedClient

NextCodec ==
    \/ Encode
    \/ Decode

CodecSpec == InitCodec /\ [][NextCodec]_vars

(***************************************************************************)
(* RawFeedSpec: _decodeData alone, fed a byte stream whose declared sizes  *)
(* are any signed 32-bit values, in chunks of any sizes.                   *)
(***************************************************************************)
\* a size field declaring size, followed by n zero bytes
RawFrame(size, n) == WriteInt32LE(size) \o Repeat(0, n)

\* what the server sends as one unit: complete frames of the declared
\* sizes 0, 1, 8 and 9, size fields declaring -4, -5 and -2^31 with the
\* bytes behind them, and a chat frame
RawItems ==
    { RawFrame(0, 0), RawFrame(1, 1), RawFrame(8, 8), RawFrame(9, 9),
      RawFrame(-4, 0), RawFrame(-4, 2), RawFrame(-5, 1),
      RawFrame(-2147483647 - 1, 0),
      EncodePacket(CHAT_VALUE, 0, <<120>>) }

RECURSIVE RawItemSeqs(_)
RawItemSeqs(n) ==
    IF n = 0 THEN { <<>> }
    ELSE LET shorter == RawItemSeqs(n - 1)
         IN  shorter \cup { Append(s, f) : s \in shorter, f \in RawItems }

InitRawFeed ==
    /\ InitClient
    /\ \E items \in RawItemSeqs(MaxStreamFrames) :
          /\ items # <<>>
          /\ wire = Flatten(items)
          /\ feed = [stream |-> wire, items |-> items, tail |-> <<>>,
                     all |-> <<>>, calls |-> "none"]
    /\ codec = NoCodec

RawFeedSpec == InitRawFeed /\ [][NextFeed]_vars

(***************************************************************************)
(* DisconnectSpec: the client and a caller that also calls disconnect().   *)
(***************************************************************************)
\* this._connection: no code of the class assigns it (the socket is
\* this._client), so it is undefined whenever disconnect() reads it
HasConnection == FALSE

\* Rcon.disconnect: if (this._connection && this._connected)
\* this._connection.end(), which would leave the socket ended (not
\* writable) until its 'close' event
Disconnect ==
    /\ ~hung
    /\ sock' = IF HasConnection /\ connected THEN "ended" ELSE sock
    /\ op' = [name |-> "disconnect", body |-> <<>>]
    /\ Commit(Client)
    /\ UNCHANGED << incomingData, maximumPacketSize, connectListeners,
                    connectErrorListeners, timers, wire, conn, hung, nConnect,
                    nSent, feed, codec >>

NextDisconnect ==
    \/ Connect
    \/ SocketConnect
    \/ SocketError
    \/ SocketClose
    \/ Execute
    \/ Disconnect

DisconnectSpec == Init /\ [][NextDisconnect]_vars

\* the whole client and a caller that also calls disconnect()
NextLifecycle ==
    \/ Next
    \/ Disconnect

LifecycleSpec == Init /\ [][NextLifecycle]_vars

(***************************************************************************)
(* ZeroLimitSpec: the client constructed with maximumPacketSize: 0, and a  *)
(* caller that executes long commands.                                     *)
(***************************************************************************)
\* options.maximumPacketSize is 0
ZeroLimitOptions == { 0 }

\* "a", the command whose packet has 4096 bytes, and the command whose
\* packet has 4097 bytes
LongCommands == { <<97>>, LongBody, LongBody \o <<120>> }

InitZeroLimit ==
    /\ InitClientWith(ZeroLimitOptions)
    /\ wire = <<>>
    /\ feed = NoFeed
    /\ codec = NoCodec

\* execute(command) with one of the long commands
ExecuteLong ==
    /\ ~hung
    /\ issued < MaxIssued
    /\ \E command \in LongCommands :
          /\ Commit(Write(Client, COMMAND, command))
          /\ op' = [name |-> "execute", body |-> command]
    /\ UNCHANGED << incomingData, maximumPacketSize, sock, connectListeners,
                    connectErrorListeners, timers, wire, conn, hung, nConnect,
                    nSent, feed, codec >>

NextZeroLimit ==
    \/ Connect
    \/ SocketConnect
    \/ SocketClose
    \/ ExecuteLong
    \/ SocketError

ZeroLimitSpec == InitZeroLimit /\ [][NextZeroLimit]_vars

(***************************************************************************)
(* BotSpec: the client inside the bot.  The bot calls rcon.connect() once  *)
(* when it starts, its 'error' and 'end' handlers call rcon.connect(), and *)
(* it executes commands (rconsend).                                        *)
(***************************************************************************)
\* the connect() calls of the bot that the model follows
MaxBotConnectCalls == 4

\* the command of the bot's interval, "a" standing for "ShowNextMap"
BotCommands == { <<97>> }

\* the 'error' notifications among the notifications evs
ErrorCount(evs) == Cardinality({ i \in DOMAIN evs : evs[i].ev = "error" })

\* rcon.connect() at the end of the bot's script
BotStart ==
    /\ ~hung
    /\ nConnect = 0
    /\ nConnect' = 1
    /\ timers' = timers
    /\ ConnectCall

\* the socket's 'error' event in the bot: every emit('error') of
\* _socketOnError and of the once listeners runs the bot's handler, which
\* calls rcon.connect(); the listeners these calls register are not run
\* by the event that is being emitted
BotSocketError ==
    /\ ~hung
    /\ sock \in {"connecting", "open"}
    /\ LET n == 1 + connectErrorListeners + Cardinality(writeErrorListeners)
           st == [Client EXCEPT
                    !.q = IF writeErrorListeners # {} THEN <<>> ELSE @,
                    !.wl = {},
                    !.ev = [i \in 1..n |-> ErrorEvent(SocketErrorText)]]
       IN  /\ nConnect + n <= MaxBotConnectCalls
           /\ Commit(st)
           /\ connectListeners' = connectListeners - connectErrorListeners + n
           /\ connectErrorListeners' = n
           /\ nConnect' = nConnect + n
    /\ sock' = "errored"
    /\ op' = [name |-> "onError", body |-> <<>>]
    /\ UNCHANGED << incomingData, maximumPacketSize, timers, wire, conn,
                    hung, nSent, feed, codec >>

\* rconsend(command): rcon.execute(command); an 'error' it emits runs the
\* bot's handler, which calls rcon.connect()
BotExecute ==
    /\ ~hung
    /\ nConnect > 0
    /\ issued < MaxIssued
    /\ \E command \in BotCommands :
          LET st == Write(Client, COMMAND, command)
              n == ErrorCount(st.ev)
          IN  /\ nConnect + n <= MaxBotConnectCalls
              /\ Commit(st)
              /\ connectListeners' = connectListeners + n
              /\ connectErrorListeners' = connectErrorListeners + n
              /\ sock' = IF n > 0 /\ sock \in {"idle", "closed"}
                         THEN "connecting" ELSE sock
              /\ nConnect' = nConnect + n
              /\ op' = [name |-> "execute", body |-> command]
    /\ UNCHANGED << incomingData, maximumPacketSize, timers, wire, conn, hung,
                    nSent, feed, codec >>

\* the game server sends the end of a response
BotServerSend ==
    /\ ~hung
    /\ sock = "open"
    /\ nSent < MaxSent
    /\ Len(wire) <= MaxInFlight
    /\ nSent' = nSent + 1
    /\ wire' = wire \o EncodePacket(RESPONSE_VALUE, END, <<>>)
    /\ UNCHANGED << connected, autoReconnect, incomingData, incomingResponse,
                    responseCallbackQueue, maximumPacketSize, sock,
                    connectListeners, connectErrorListeners,
                    writeErrorListeners, timers, op, emitted, written, steps,
                    handed, frames, threw, issued, delivered, sinceEnd, hs,
                    conn, hung, nConnect, feed, codec >>

NextBot ==
    \/ BotStart
    \/ ReconnectTimer
    \/ Tick
    \/ SocketConnect
    \/ BotSocketError
    \/ SocketClose
    \/ BotExecute
    \/ BotServerSend
    \/ SocketOnData

BotSpec == Init /\ [][NextBot]_vars

(***************************************************************************)
(* OddFrameSpec: the client and a server that also sends frames of a type  *)
(* or an id the client does not know.                                      *)
(***************************************************************************)
\* a packet type that is none of PacketResponseType
UnknownType == 5

\* a packet id that is none of PacketId
UnknownId == 7

\* the frames of ServerFrames, a frame of an unknown type with the id
\* END and a response frame with an unknown id
OddServerFrames(n) ==
    ServerFrames(n) \cup
       { EncodePacket(UnknownType, END, <<121>>),
         EncodePacket(RESPONSE_VALUE, UnknownId, <<122>>) }

\* the server sends one more frame
OddServerSend ==
    /\ ~hung
    /\ sock = "open"
    /\ nSent < MaxSent
    /\ Len(wire) <= MaxInFlight
    /\ nSent' = nSent + 1
    /\ \E f \in OddServerFrames(nSent) : wire' = wire \o f
    /\ UNCHANGED << connected, autoReconnect, incomingData, incomingResponse,
                    responseCallbackQueue, maximumPacketSize, sock,
                    connectListeners, connectErrorListeners,
                    writeErrorListeners, timers, op, emitted, written, steps,
                    handed, frames, threw, issued, delivered, sinceEnd, hs,
                    conn, hung, nConnect, feed, codec >>

NextOddFrame ==
    \/ Connect
    \/ SocketConnect
    \/ Execute
    \/ OddServerSend
    \/ SocketOnData

OddFrameSpec == Init /\ [][NextOddFrame]_vars

(***************************************************************************)
(* Properties of the correlator and the handshake, checked under Spec.     *)
(***************************************************************************)
Range(f) == { f[i] : i \in DOMAIN f }

IsResponse(type) == type \in {RESPONSE_VALUE, RESPONSE_AUTH}

StrictlyIncreasing(f) == \A i, j \in DOMAIN f : i < j => f[i] < f[j]

\* the issue numbers of the command completions of q, in order
RequestsOf(q) ==
    LET IsCmd(cb) == cb.kind = "cmd"
        cmds == SelectSeq(q, IsCmd)
    IN  [i \in DOMAIN cmds |-> cmds[i].req]

\* the End-tagged response frames among the dispatched frames fs
EndFrames(fs) ==
    LET IsEnd(f) == IsResponse(f.type) /\ f.id = END
    IN  SelectSeq(fs, IsEnd)

\* a step of _socketOnData: the open socket delivers bytes in flight
IsDataStep == sock = "open" /\ sock' = "open" /\ Len(wire') < Len(wire)

C2_JoinedWithoutSeparator ==
    /\ \A i \in DOMAIN handed : handed[i].arg = Flatten(handed[i].frags)
    /\ handed # <<>> /\ ~threw /\ frames[Len(frames)].id = END
          /\ IsResponse(frames[Len(frames)].type)
          => incomingResponse = <<>>

\* C3: a response frame with id -1 that answers the Auth packet makes the
\* client emit the authentication-failed error, and the connection it
\* arrived on never becomes authed.
C3_AuthFailureReported ==
    /\ \A i \in DOMAIN frames :
          IsResponse(frames[i].type) /\ frames[i].id = -1 /\ frames[i].authPending
             => ErrorEvent("Authentication failed.") \in Range(emitted)
    /\ hs.refused = conn /\ conn > 0 => hs.authed # conn

\* C4: an execute call on a connection that is established but whose
\* handshake has not succeeded is rejected with an 'error' and writes no
\* packet.
C4_ExecuteOnlyWhenReady ==
    op.name = "execute" /\ connected /\ hs.authed # conn
       => /\ written = <<>>
          /\ emitted # <<>>
          /\ \A i \in DOMAIN emitted : emitted[i].ev = "error"

\* C5: when the handshake of a reconnect begins, the reassembly buffer and
\* the fragment accumulator are empty and the queue holds only the
\* completions of this handshake.
C5_FreshStatePerConnection ==
    op.name = "onConnect" /\ conn >= 2
       => /\ incomingData = <<>>
          /\ incomingResponse = <<>>
          /\ \A i \in DOMAIN responseCallbackQueue :
                responseCallbackQueue[i].epoch = conn

\* C6: after the socket has closed the pending-completion queue is empty,
\* and a frame never invokes a completion queued on an earlier connection.
C6_DropDiscardsPending ==
    /\ op.name = "onClose" => responseCallbackQueue = <<>>
    /\ \A i \in DOMAIN handed : handed[i].epoch = conn

\* a step of execute on a connected client with a writable socket (the
\* passing of time leaves op alone, but not the timers)
IsConnectedExecuteStep ==
    /\ op'.name = "execute"
    /\ wire' = wire
    /\ timers' = timers
    /\ connected
    /\ sock = "open"

\* C10: an execute whose encoded packet (byteLength(body) + 14) exceeds the
\* maximum packet size emits 'Packet too long.', writes nothing and leaves
\* the queue and the error listeners as they were; one whose packet is
\* exactly the maximum size is written (command packet, then End marker)
\* and queued.
C10_OversizeRejected ==
    [][ IsConnectedExecuteStep =>
          LET length == Len(Utf8Encode(op'.body)) + 14
          IN  /\ length > maximumPacketSize
                 => /\ emitted' = << ErrorEvent("Packet too long.") >>
                    /\ written' = <<>>
                    /\ responseCallbackQueue' = responseCallbackQueue
                    /\ writeErrorListeners' = writeErrorListeners
              /\ length = maximumPacketSize
                 => /\ emitted' = <<>>
                    /\ written' = << EncodePacket(COMMAND, MID, op'.body),
                                     EncodePacket(COMMAND, END, <<>>) >>
                    /\ Len(responseCallbackQueue') = Len(responseCallbackQueue) + 1
      ]_vars

\* C10: an oversize execute was rejected while completions were pending
C10_OversizeSeen ==
    /\ op.name = "execute"
    /\ Len(Utf8Encode(op.body)) + 14 > maximumPacketSize
    /\ emitted = << ErrorEvent("Packet too long.") >>
    /\ written = <<>>
    /\ connected
    /\ responseCallbackQueue # <<>>

(***************************************************************************)
(* Properties of the reassembler, checked under FeedSpec.                  *)
(***************************************************************************)
\* the stream is one complete encoded frame and nothing else
OneFrameStream ==
    /\ Len(feed.items) = 1
    /\ feed.items[1] \in EncodedFrames
    /\ feed.tail = <<>>

\* C7: the bytes of one complete encoded frame, fed from an empty buffer in
\* chunks of any sizes, give no frame before the last byte and, over all
\* the calls together, exactly the frame that feeding it in one chunk
\* gives, leaving the buffer empty.
C7_ChunkBoundaryIndependent ==
    OneFrameStream =>
       /\ ~hung
       /\ wire # <<>> =>
             /\ feed.all = <<>>
             /\ incomingData = SubSeq(feed.stream, 1, Len(feed.stream) - Len(wire))
       /\ wire = <<>> =>
             /\ feed.all = << feed.stream >>
             /\ feed.all = DecodeData(<<>>, feed.stream).packets
             /\ incomingData = <<>>

\* C7: a frame that was fed in three chunks or more has been reassembled
C7_FrameFromManyChunks ==
    /\ OneFrameStream
    /\ feed.calls = "many"
    /\ wire = <<>>
    /\ feed.all = << feed.stream >>

\* the buffer buf starts with the malformed packet and holds all 21 bytes
\* of it
StartsWithBroken(buf) ==
    /\ Len(buf) >= probePacketSize
    /\ SubSeq(buf, 1, 4) = WriteInt32LE(10)
    /\ SubSeq(buf, 13, 19) = BrokenBody

\* the chunk a step of Feed passes to _decodeData, and the packets the
\* call returned
FedChunk == SubSeq(wire, 1, Len(wire) - Len(wire'))
Returned == SubSeq(feed'.all, Len(feed.all) + 1, Len(feed'.all))

\* the number of malformed packets among the items of the stream
BrokenItems ==
    Cardinality({ i \in DOMAIN feed.items :
                     feed.items[i] = BrokenPacket(RESPONSE_VALUE, END) })

\* C8: when the extraction loop stands at a buffer that starts with the
\* 21-byte malformed packet, all 21 bytes buffered, it emits no frame for
\* it, removes exactly those 21 bytes and goes on with the bytes that
\* follow: the call returns what the frames before it and the bytes after
\* it give, and does not fail; in a stream of complete frames with one
\* malformed packet, what the call returns and keeps is every byte it was
\* given but those 21.
C8_QuirkSuppressed ==
    [][ \A p \in 0..Len(incomingData \o FedChunk) :
           LET input == incomingData \o FedChunk
               before == DecodeLoop(SubSeq(input, 1, p), <<>>, <<>>)
               after == SubSeq(input, p + probePacketSize + 1, Len(input))
               rest == DecodeLoop(after, <<>>, <<>>)
           IN  /\ StartsWithBroken(SubSeq(input, p + 1, Len(input)))
               /\ before.data = <<>> /\ ~before.hung
               => /\ ~hung'
                  /\ Returned = before.packets \o rest.packets
                  /\ incomingData' = rest.data
                  /\ emitted' = emitted
                  /\ BrokenItems = 1 /\ feed.tail = <<>> =>
                        Flatten(Returned) \o incomingData'
                           = SubSeq(input, 1, p) \o after
      ]_vars

\* C8: the malformed packet and an End frame after it were fed in one
\* chunk, and the call returned the End frame alone
C8_FrameAfterQuirk ==
    /\ feed.items = << BrokenPacket(RESPONSE_VALUE, END),
                       EncodePacket(RESPONSE_VALUE, END, <<>>) >>
    /\ feed.tail = <<>>
    /\ feed.calls = "one"
    /\ wire = <<>>
    /\ feed.all = << EncodePacket(RESPONSE_VALUE, END, <<>>) >>
    /\ incomingData = <<>>

\* C9: a genuine 14-byte frame with an empty body at the head of the
\* stream is emitted as a frame of exactly its 14 bytes once they have
\* arrived, whatever bytes follow it.
C9_GenuineFrameEmitted ==
    /\ feed.items # <<>>
    /\ feed.items[1] = EncodePacket(RESPONSE_VALUE, END, <<>>)
    /\ Len(feed.stream) - Len(wire) >= 14
    => /\ feed.all # <<>>
       /\ feed.all[1] = feed.items[1]

(***************************************************************************)
(* Properties of _write and of the socket lifecycle, checked under Spec.   *)
(***************************************************************************)
\* a step of execute
IsExecuteStep == op'.name = "execute" /\ wire' = wire /\ timers' = timers

\* C11: an execute called while the client is not connected, or while the
\* socket is not writable, emits one 'error', writes no packet and leaves
\* the pending queue, the accumulator and the reassembly buffer as they
\* were.
C11_WriteBeforeConnected ==
    [][ IsExecuteStep /\ (~connected \/ sock # "open") =>
          /\ emitted' = << ErrorEvent(IF ~connected THEN "Not connected."
                                      ELSE "Unable to write to socket.") >>
          /\ written' = <<>>
          /\ responseCallbackQueue' = responseCallbackQueue
          /\ incomingResponse' = incomingResponse
          /\ incomingData' = incomingData
          /\ writeErrorListeners' = writeErrorListeners
      ]_vars

\* C11: an execute was rejected after a close that left completions in the
\* queue and bytes in the buffer
C11_RejectedAfterClose ==
    /\ op.name = "execute"
    /\ ~connected
    /\ sock = "closed"
    /\ emitted = << ErrorEvent("Not connected.") >>
    /\ written = <<>>
    /\ responseCallbackQueue # <<>>
    /\ incomingData # <<>>

\* an execute was rejected because the socket is not writable
NotWritableSeen ==
    /\ op.name = "execute"
    /\ connected
    /\ emitted = << ErrorEvent("Unable to write to socket.") >>

\* execute is accepted: connected, writable, and the packet fits
Accepted(command) ==
    /\ connected
    /\ sock = "open"
    /\ Len(Utf8Encode(command)) + 14 <= maximumPacketSize

\* C12: an accepted execute writes exactly two packets, the Command packet
\* tagged Mid with the command body and then the Command packet tagged End
\* with an empty body, and appends exactly one completion to the queue,
\* before the first write.
C12_TwoPacketsPerExecute ==
    [][ IsExecuteStep /\ Accepted(op'.body) =>
          /\ written' = << EncodePacket(COMMAND, MID, op'.body),
                           EncodePacket(COMMAND, END, <<>>) >>
          /\ DecodePacket(written'[1]).body = op'.body
          /\ Len(responseCallbackQueue') = Len(responseCallbackQueue) + 1
          /\ SubSeq(responseCallbackQueue', 1, Len(responseCallbackQueue))
                = responseCallbackQueue
          /\ responseCallbackQueue'[Len(responseCallbackQueue')].kind = "cmd"
          /\ steps' = << "push", "once", "write", "write" >>
      ]_vars

\* C12: a command was accepted on a connection that is authed
C12_CommandSent ==
    /\ op.name = "execute"
    /\ hs.authed = conn
    /\ Len(written) = 2
    /\ steps = << "push", "once", "write", "write" >>
    /\ Len(responseCallbackQueue) = 1

\* the 'chat' notifications among the notifications evs, and the chat
\* frames among the frames fs
ChatEvents(evs) ==
    LET IsChat(e) == e.ev = "chat"
    IN  SelectSeq(evs, IsChat)

ChatFrames(fs) ==
    LET IsChat(f) == f.type = CHAT_VALUE
    IN  SelectSeq(fs, IsChat)

\* C13: every chat frame a data event dispatches gives one 'chat'
\* notification with the frame's body, in order; the frame dispatched after
\* a chat frame finds the queue and the accumulator as the chat frame found
\* them; and a data event of chat frames alone leaves the queue and the
\* accumulator as they were and invokes no completion.
C13_ChatBypassesCorrelator ==
    [][ IsDataStep =>
          LET chats == ChatFrames(frames')
          IN  /\ ChatEvents(emitted')
                    = [i \in DOMAIN chats |-> Event("chat", "", chats[i].body)]
              /\ \A i \in DOMAIN frames' :
                    frames'[i].type = CHAT_VALUE /\ i < Len(frames')
                       => /\ frames'[i + 1].queued = frames'[i].queued
                          /\ frames'[i + 1].acc = frames'[i].acc
              /\ frames' # <<>> /\ chats = frames'
                    => /\ responseCallbackQueue' = responseCallbackQueue
                       /\ incomingResponse' = incomingResponse
                       /\ handed' = <<>>
                       /\ emitted' = ChatEvents(emitted')
      ]_vars

\* C13: a chat frame arrived between two Mid fragments of a response
C13_ChatBetweenFragments ==
    /\ Len(frames) = 2
    /\ frames[1].type = CHAT_VALUE /\ frames[1].acc = 1
    /\ IsResponse(frames[2].type) /\ frames[2].id = MID
    /\ Len(incomingResponse) = 2
    /\ emitted = << Event("chat", "", frames[1].body) >>
    /\ responseCallbackQueue # <<>>

\* a step of _socketOnClose, and a step in which a reconnect timer fires
IsCloseStep == sock # "closed" /\ sock' = "closed"
IsTimerStep == Len(timers') < Len(timers)

\* C14: once authentication has succeeded, a socket close schedules
\* exactly one timer, with the reconnect delay of 5000 ms, and starts no
\* connect attempt itself; a timer fires only when its delay has elapsed,
\* and makes exactly one call of connect.
C14_OneDelayedReconnectPerClose ==
    [][ /\ IsCloseStep /\ hs.authed > 0 =>
             /\ timers' = Append(timers, AutoReconnectDelay)
             /\ timers'[Len(timers')] = 5000
             /\ connectListeners' = connectListeners
             /\ sock' # "connecting"
        /\ IsTimerStep =>
             /\ Head(timers) = 0
             /\ timers' = Tail(timers)
             /\ connectListeners' = connectListeners + 1
             /\ connectErrorListeners' = connectErrorListeners + 1
             /\ op'.name = "connect"
      ]_vars

\* C14: a second connection was established by the reconnect timer alone
\* (the caller called connect once), after the first one was authed
C14_ReconnectedByTimer ==
    /\ nConnect = 1
    /\ conn = 2
    /\ hs.authed = 1
    /\ timers = <<>>
    /\ sock = "open"

\* a step of the socket's 'error' event
IsErrorStep == sock # "errored" /\ sock' = "errored"

ClosedAfterAuthed == op.name = "onClose" /\ sock = "closed" /\ hs.authed > 0

\* C16: once a connection has been authed, every socket close is
\* eventually followed by a new connect attempt (the socket is connecting
\* again), also the close that ends a failed reconnect attempt, without
\* limit, and even if the caller never calls connect again.
C16_EveryCloseRetried == ClosedAfterAuthed ~> (sock = "connecting")

\* C16: a reconnect attempt made by the timer (the caller called connect
\* once, for the connection that was authed) has failed
C16_TimerAttemptFailed ==
    /\ sock = "errored"
    /\ ~connected
    /\ nConnect = 1
    /\ conn = 1
    /\ hs.authed = 1
    /\ timers = <<>>

(***************************************************************************)
(* Properties of the handshake, checked under Spec.                        *)
(***************************************************************************)
\* the completions of q that were queued on connection c
QueuedOn(q, c) ==
    LET OnC(cb) == cb.epoch = c
    IN  SelectSeq(q, OnC)

\* C17: a socket 'connect' event writes exactly one Auth packet, carrying
\* the configured password, and appends exactly two completions, a no-op
\* and then the auth completion, however many times connect() was called
\* before.
C17_OneHandshakePerConnection ==
    op.name = "onConnect" =>
       /\ written = << EncodePacket(AUTH, END, Password) >>
       /\ steps = << "push", "push", "once", "write" >>
       /\ Len(QueuedOn(responseCallbackQueue, conn)) = 2
       /\ QueuedOn(responseCallbackQueue, conn)[1].kind = "noop"
       /\ QueuedOn(responseCallbackQueue, conn)[2].kind = "auth"

\* the notifications of evs that are not 'chat', and the completions of hd
\* of the given kind
CorrelatorEvents(evs) ==
    LET NotChat(e) == e.ev # "chat"
    IN  SelectSeq(evs, NotChat)

HandedOfKind(hd, kind) ==
    LET IsKind(h) == h.kind = kind
    IN  SelectSeq(hd, IsKind)

\* C18: on a connection whose queue was empty when it was established,
\* the first End-tagged response frame is taken by the no-op completion,
\* which emits nothing; 'authed' is not emitted and the connection is not
\* authed before the second one; the second one is taken by the auth
\* completion, which emits 'authed' once and sets the auto-reconnect flag.
C18_SuccessfulHandshake ==
    [][ IsDataStep /\ hs.fresh =>
          LET n == Len(EndFrames(frames'))
              before == hs.seen
          IN  /\ hs'.seen = before + n
              /\ before + n < 2 =>
                    /\ HandedOfKind(handed', "auth") = <<>>
                    /\ Event("authed", "", <<>>) \notin Range(emitted')
                    /\ hs'.authed # conn
              /\ before = 0 /\ n >= 1 =>
                    /\ handed'[1].kind = "noop"
                    /\ n = 1 => CorrelatorEvents(emitted') = <<>>
              /\ before < 2 /\ before + n >= 2 =>
                    /\ handed'[2 - before].kind = "auth"
                    /\ handed'[2 - before].epoch = conn
                    /\ CorrelatorEvents(emitted')[1] = Event("authed", "", <<>>)
                    /\ autoReconnect'
                    /\ hs'.authed = conn
              /\ Len(CorrelatorEvents(emitted'))
                    = Len(handed') - Len(HandedOfKind(handed', "noop"))
      ]_vars

\* C18: the second End-tagged response frame of a connection arrived in a
\* chunk of its own and the connection became authed
C18_AuthedBySecondEnd ==
    /\ op.name = "onData"
    /\ hs.fresh
    /\ hs.seen = 2
    /\ Len(frames) = 1
    /\ handed # <<>> /\ handed[1].kind = "auth"
    /\ emitted = << Event("authed", "", <<>>) >>
    /\ autoReconnect
    /\ hs.authed = conn

\* C19: the handler of a socket close emits an 'end' notification.
C19_CloseReportedAsEnd ==
    op.name = "onClose" =>
       \E i \in DOMAIN emitted : emitted[i].ev = "end"

(***************************************************************************)
(* Properties of the packet codec, checked under CodecSpec.                *)
(***************************************************************************)
\* a string without an unpaired surrogate
WellFormed(s) ==
    \A i \in DOMAIN s :
       /\ IsHighSurrogate(s[i]) => i < Len(s) /\ IsLowSurrogate(s[i + 1])
       /\ IsLowSurrogate(s[i]) => i > 1 /\ IsHighSurrogate(s[i - 1])

\* the strings an encoding has bytes for: well-formed ones in UTF-8,
\* 7-bit ones in ASCII
Representable(encoding, s) ==
    IF encoding = "ascii" THEN \A i \in DOMAIN s : s[i] < 128
    ELSE WellFormed(s)

\* the layout of the packet: the size field is byteLength(body) + 10, the
\* packet is 4 bytes longer than the size field says, the last two bytes
\* are zero
LayoutOk ==
    LET packet == codec.packet
    IN  /\ ReadInt32LE(packet, 0) = ByteLength(codec.body) + 10
        /\ Len(packet) = ReadInt32LE(packet, 0) + 4
        /\ packet[Len(packet) - 1] = 0
        /\ packet[Len(packet)] = 0

\* C20 as stated: for every kind, id and body within the packet-size
\* limit, decoding the encoded packet returns the same id, kind and body,
\* and the packet has the layout above.
C20_RoundTripEveryBody ==
    codec.phase = "decoded" =>
       /\ codec.decoded.id = codec.id
       /\ codec.decoded.type = codec.type
       /\ codec.decoded.body = codec.body
       /\ LayoutOk

\* C20: for every kind, id and body within the packet-size limit, decoding
\* the encoded packet returns the same id and kind, the packet has the
\* layout above, and the body is returned unchanged when the configured
\* encoding has bytes for it.
C20_RoundTripRepresentable ==
    codec.phase = "decoded" =>
       /\ codec.decoded.id = codec.id
       /\ codec.decoded.type = codec.type
       /\ LayoutOk
       /\ Representable(codec.encoding, codec.body) =>
             codec.decoded.body = codec.body

\* a four-byte character after a two-byte one, with id -1, has come back
C20_MultiByteBodyReturned ==
    /\ codec.phase = "decoded"
    /\ codec.encoding = "utf8"
    /\ codec.id = -1
    /\ codec.type = COMMAND
    /\ codec.body = <<55357, 56832>>
    /\ Len(codec.packet) = 18
    /\ codec.decoded.body = codec.body

(***************************************************************************)
(* Properties of the pending queue, checked under Spec.                    *)
(***************************************************************************)
\* the frame record f is an End-tagged ResponseValue/ResponseAuth frame
IsEndFrame(f) == IsResponse(f.type) /\ f.id = END

\* a step of the socket's 'connect' event
IsConnectStep == sock = "connecting" /\ sock' = "open"

\* q is the queue p with the completions more appended
Grown(p, q, more) ==
    /\ Len(q) = Len(p) + more
    /\ SubSeq(q, 1, Len(p)) = p

\* the queue changes in no step but a data event, an execute, a 'connect'
\* event or an 'error' event; an accepted write appends one completion for
\* a command and two for every Auth packet; an 'error' event leaves the
\* queue or empties it; every completion a data event removes is invoked
GrowsByWritesOnly ==
    LET q == responseCallbackQueue
        q2 == responseCallbackQueue'
    IN  /\ q2 # q => IsDataStep \/ IsExecuteStep \/ IsConnectStep \/ IsErrorStep
        /\ IsExecuteStep =>
              /\ Grown(q, q2, IF written' = <<>> THEN 0 ELSE 1)
              /\ written' # <<>> => q2[Len(q2)].kind = "cmd"
        /\ IsConnectStep =>
              /\ Grown(q, q2, 2 * Len(written'))
              /\ \A i \in 1..Len(written') :
                    /\ DecodePacket(written'[i]).type = AUTH
                    /\ q2[Len(q) + 2 * i - 1].kind = "noop"
                    /\ q2[Len(q) + 2 * i].kind = "auth"
        /\ IsErrorStep => q2 = q \/ q2 = <<>>
        /\ IsDataStep =>
              /\ Len(q2) <= Len(q)
              /\ q2 = SubSeq(q, Len(q) - Len(q2) + 1, Len(q))
              /\ Len(handed') = Len(q) - Len(q2)

\* C21 as stated: the queue shrinks by exactly one entry, its head, on
\* each End-tagged response frame, is left unchanged by every other frame,
\* and grows only through accepted writes; no entry is removed without
\* being invoked except by a transport error.
C21_EveryEndRetiresOne ==
    [][ /\ GrowsByWritesOnly
        /\ IsDataStep =>
              LET fs == frames'
              IN  /\ fs # <<>> => fs[1].queued = Len(responseCallbackQueue)
                  /\ \A i \in DOMAIN fs :
                        LET after == IF i < Len(fs) THEN fs[i + 1].queued
                                     ELSE Len(responseCallbackQueue')
                        IN  after = fs[i].queued
                                      - (IF IsEndFrame(fs[i]) THEN 1 ELSE 0)
      ]_vars

\* C21, amended: the queue shrinks by exactly one entry, its head, on each
\* End-tagged response frame that finds it non-empty, and stays empty on
\* one that finds it empty; it is left unchanged by every other frame and
\* grows only through accepted writes; no entry is removed without being
\* invoked except by a transport error.
C21_EndRetiresHeadIfAny ==
    [][ /\ GrowsByWritesOnly
        /\ IsDataStep =>
              LET fs == frames'
              IN  /\ fs # <<>> => fs[1].queued = Len(responseCallbackQueue)
                  /\ \A i \in DOMAIN fs :
                        LET after == IF i < Len(fs) THEN fs[i + 1].queued
                                     ELSE Len(responseCallbackQueue')
                        IN  after = fs[i].queued
                                      - (IF IsEndFrame(fs[i]) /\ fs[i].queued > 0
                                         THEN 1 ELSE 0)
      ]_vars

\* a data event dispatched a fragment, which left the two pending
\* completions alone, and then an End frame, which retired the older one
C21_HeadRetiredAfterFragment ==
    /\ op.name = "onData"
    /\ Len(frames) = 2
    /\ IsResponse(frames[1].type) /\ frames[1].id = MID
    /\ IsEndFrame(frames[2])
    /\ frames[1].queued = 2 /\ frames[2].queued = 2
    /\ Len(responseCallbackQueue) = 1
    /\ Len(handed) = 1

(***************************************************************************)
(* Properties of the size limit, checked under ZeroLimitSpec.              *)
(***************************************************************************)
\* C22: with maximumPacketSize configured as zero, an execute on a
\* connected client with a writable socket is accepted whatever the length
\* of the command: its two packets are written and no 'Packet too long.'
\* error is emitted.
C22_ZeroRemovesLimit ==
    op.name = "execute" /\ connected /\ sock = "open" =>
       /\ \A i \in DOMAIN emitted : emitted[i] # ErrorEvent("Packet too long.")
       /\ Len(written) = 2

(***************************************************************************)
(* Properties of the frame reassembler, checked under FeedSpec.            *)
(***************************************************************************)
\* the whole stream has been fed
StreamFed == feed.calls # "none" /\ wire = <<>>

\* C23: a stream that begins with the broken packet, followed by frames,
\* and is fed in chunks of any sizes: once it is fed, the packets returned
\* in total are the frames that follow the broken packet, and the buffer
\* is empty.
C23_QuirkSuppressedAcrossReads ==
    /\ StreamFed
    /\ feed.items[1] = BrokenPacket(RESPONSE_VALUE, END)
    /\ \A i \in 2..Len(feed.items) : feed.items[i] \in EncodedFrames
    /\ feed.tail = <<>>
    => /\ ~hung
       /\ feed.all = Tail(feed.items)
       /\ incomingData = <<>>

(***************************************************************************)
(* Properties of the frame reassembler on any declared size, checked under *)
(* RawFeedSpec.                                                            *)
(***************************************************************************)
\* size + 4 for the size field that leads buf
DeclaredPacketSize(buf) == ReadInt32LE(buf, 0) + 4

\* C24: after every call of _decodeData that returns, the buffer is shorter
\* than 4 bytes or shorter than its leading declared size + 4, and every
\* packet returned is exactly its own declared size + 4 bytes long.
C24_OnlyCompleteFramesEmitted ==
    feed.calls # "none" /\ ~hung =>
       /\ \/ Len(incomingData) < 4
          \/ Len(incomingData) < DeclaredPacketSize(incomingData)
       /\ \A i \in DOMAIN feed.all :
             /\ CanRead(feed.all[i], 0)
             /\ Len(feed.all[i]) = DeclaredPacketSize(feed.all[i])

\* C26: the loop of _decodeData terminates on every input, whatever the
\* declared size: no call is left repeating an iteration that removes no
\* byte from the buffer.
C26_DecodeLoopTerminates == ~hung

\* C28: every packet _decodeData returns, and _socketOnData hands to
\* _decodePacket, is at least 14 bytes long, so that the decoder reads
\* inside the packet.
C28_DecoderNeverReadsOutside ==
    \A i \in DOMAIN feed.all :
       /\ Len(feed.all[i]) >= 14
       /\ CanDecode(feed.all[i])

(***************************************************************************)
(* Properties of the data handler, checked under Spec.                     *)
(***************************************************************************)
\* the chunk a data step delivers
Chunk == SubSeq(wire, 1, Len(wire) - Len(wire'))

\* C25: in every data event, the pieces _decodeData cuts off the buffer
\* (the packets returned and the broken packets dropped, in the order they
\* are cut), followed by the buffer it leaves, are the buffer it found
\* followed by the chunk; and the packets returned are dispatched, all of
\* them and in that order.
C25_BytesConservedInOrder ==
    [][ IsDataStep =>
          LET dec == DecodeData(incomingData, Chunk)
              pieces == [i \in DOMAIN dec.log |-> dec.log[i].bytes]
          IN  /\ ~hung'
              /\ Flatten(pieces) \o incomingData' = incomingData \o Chunk
              /\ Len(frames') = Len(dec.packets)
              /\ \A i \in DOMAIN frames' :
                    LET d == DecodePacket(dec.packets[i])
                    IN  /\ frames'[i].type = d.type
                        /\ frames'[i].id = d.id
                        /\ frames'[i].body = d.body
      ]_vars

\* C27: a data event that dispatches an End-tagged response frame while
\* the queue is empty raises no exception (so the frames after it are
\* dispatched), and that frame completes nothing: the completions invoked
\* are those of the End frames that found the queue non-empty.
C27_UnsolicitedEndIgnored ==
    \A i \in DOMAIN frames :
       IsEndFrame(frames[i]) /\ frames[i].queued = 0 =>
          /\ ~threw
          /\ Len(handed) = Cardinality({ j \in DOMAIN frames :
                                           /\ IsEndFrame(frames[j])
                                           /\ frames[j].queued > 0 })

(***************************************************************************)
(* Properties of the socket's events, checked under Spec.                  *)
(***************************************************************************)
\* C29: the handler of one socket 'error' event emits exactly one 'error'
\* notification, however many completions are pending, and leaves the
\* queue empty.
C29_OneErrorPerSocketError ==
    op.name = "onError" =>
       /\ emitted = << ErrorEvent(SocketErrorText) >>
       /\ responseCallbackQueue = <<>>

(***************************************************************************)
(* Properties of disconnect, checked under DisconnectSpec.                 *)
(***************************************************************************)
\* C30: when disconnect() returns on a connected client, the socket has
\* been ended: it is no longer open for writing, and its close follows.
C30_DisconnectEndsSocket ==
    op.name = "disconnect" /\ connected => sock # "open"


(***************************************************************************)
(* Properties of the bot composition, checked under BotSpec.               *)
(***************************************************************************)
\* the connect() calls of a step: those of the bot and that of the timer
ConnectCalls ==
    (nConnect' - nConnect) + (IF IsTimerStep THEN 1 ELSE 0)

\* C31: in the bot, where the 'error' and 'end' handlers call
\* rcon.connect() and the client schedules its own delayed reconnect, a
\* step invokes connect() at most once, and only when no earlier connect
\* attempt is outstanding and the socket is not connected; so at most one
\* 'connect' listener is registered at any time.
C31_OneConnectPerDrop ==
    [][ /\ ConnectCalls > 0 =>
              /\ ConnectCalls = 1
              /\ sock \notin {"connecting", "open"}
              /\ connectListeners = 0
        /\ connectListeners' <= 1 ]_vars


IsIgnoredFrame(f) ==
    \/ f.type \notin {RESPONSE_VALUE, RESPONSE_AUTH, CHAT_VALUE}
    \/ IsResponse(f.type) /\ f.id \notin {MID, END}

\* the bytes of the dispatched frames fs as the server encoded them
FrameBytes(fs) ==
    Flatten([i \in DOMAIN fs |-> EncodePacket(fs[i].type, fs[i].id, fs[i].body)])

\* C33: a complete frame whose type is not RESPONSE_VALUE, RESPONSE_AUTH
\* or CHAT_VALUE, or a response frame whose id is neither MID nor END, is
\* ignored: the queue and the accumulator are after it what they were
\* before it, the notifications of the data event are those of its chat
\* frames and of its completions only, a data event of such frames alone
\* changes nothing and emits nothing, and the bytes of every dispatched
\* frame have left the reassembly buffer.
C33_UnknownFramesIgnored ==
    [][ IsDataStep /\ ~hung' =>
          LET fs == frames'
              queuedAfter(i) == IF i < Len(fs) THEN fs[i + 1].queued
                                ELSE Len(responseCallbackQueue')
              accAfter(i) == IF i < Len(fs) THEN fs[i + 1].acc
                             ELSE Len(incomingResponse')
              ignored == { i \in DOMAIN fs : IsIgnoredFrame(fs[i]) }
              total == incomingData \o Chunk
              bytes == FrameBytes(fs)
          IN  /\ \A i \in ignored :
                    /\ queuedAfter(i) = fs[i].queued
                    /\ accAfter(i) = fs[i].acc
              /\ Len(emitted') = Len(ChatFrames(fs))
                    + Len(handed') - Len(HandedOfKind(handed', "noop"))
              /\ fs # <<>> /\ ignored = DOMAIN fs =>
                    /\ emitted' = <<>>
                    /\ handed' = <<>>
                    /\ ~threw'
                    /\ responseCallbackQueue' = responseCallbackQueue
                    /\ incomingResponse' = incomingResponse
                    /\ writeErrorListeners' = writeErrorListeners
              /\ Len(bytes) + Len(incomingData') <= Len(total)
              /\ SubSeq(total, 1, Len(bytes)) = bytes
              /\ SubSeq(total, Len(total) - Len(incomingData') + 1, Len(total))
                    = incomingData'
      ]_vars

\* C33: one data event dispatched a frame of an unknown type and a
\* response frame of an unknown id while a request was pending and a
\* fragment was held, and left nothing in the reassembly buffer
C33_OddFramesBetweenFragments ==
    /\ op.name = "onData"
    /\ Len(frames) = 2
    /\ frames[1].type = UnknownType
    /\ IsResponse(frames[2].type) /\ frames[2].id = UnknownId
    /\ frames[1].queued > 0
    /\ frames[1].acc > 0
    /\ incomingData = <<>>


(***************************************************************************)
(* Properties of the error listeners of _write, checked under Spec.        *)
(***************************************************************************)
\* the completions of the queue q that are not the no-op
NonNoop(q) ==
    LET IsReal(cb) == cb.kind # "noop"
    IN  SelectSeq(q, IsReal)

\* the error listeners the completions of the queue q would remove
ListenersOf(q) == { NonNoop(q)[i].tok : i \in DOMAIN NonNoop(q) }

\* every registered error listener of _write belongs to one queued
\* completion and every queued completion but the no-op has its own
ListenersMatchQueue(listeners, q) ==
    /\ listeners = ListenersOf(q)
    /\ Cardinality(listeners) = Len(NonNoop(q))

\* C34: the error listeners of _write do not leak: in every state their
\* number is the number of queued completions that are not the no-op; an
\* execute that is rejected registers none, a data event removes one for
\* every completion it calls but the no-op, and a socket error removes
\* all of them.
C34_ErrorListenersMatchQueue ==
    [][ /\ ListenersMatchQueue(writeErrorListeners, responseCallbackQueue)
        /\ ListenersMatchQueue(writeErrorListeners', responseCallbackQueue')
        /\ IsExecuteStep /\ written' = <<>> =>
              writeErrorListeners' = writeErrorListeners
        /\ IsDataStep =>
              /\ writeErrorListeners' \subseteq writeErrorListeners
              /\ Cardinality(writeErrorListeners)
                    - Cardinality(writeErrorListeners')
                 = Len(handed') - Len(HandedOfKind(handed', "noop"))
        /\ IsErrorStep => writeErrorListeners' = {}
      ]_vars

\* C34: a data event completed the older of two commands in flight: its
\* listener is removed, that of the newer command is still registered
C34_OneOfTwoListenersRemoved ==
    /\ op.name = "onData"
    /\ HandedOfKind(handed, "cmd") # <<>>
    /\ Cardinality(writeErrorListeners) = 1
    /\ Len(responseCallbackQueue) = 1
    /\ responseCallbackQueue[1].kind = "cmd"

=============================================================================
